---- MODULE Spec2Model ----
(***************************************************************************)
(* Model of the DBT MCP session client (agents/mcp_client.py) and of the   *)
(* tool-adapter / orchestration layer built on it (agents/agent.py).       *)
(*                                                                         *)
(* Python values are encoded as follows.                                   *)
(*   - a str is a sequence of tokens; "" is << >>; an f-string is the      *)
(*     concatenation of its literal pieces and of its formatted fields;    *)
(*   - None is the one-token sequence NoneVal, which no str of the model   *)
(*     equals;                                                             *)
(*   - an object reference (a DBTMCPClient, an AsyncExitStack, a           *)
(*     ClientSession) is a positive number, and 0 is the None reference;   *)
(*   - an exception is a record [kind, msg]; NoExc is "nothing raised".    *)
(***************************************************************************)
EXTENDS Integers, Sequences, FiniteSets, TLC

\* ------------------------------------------------------------- bounds
\* DBTMCPClient objects constructed in one run.
MaxClients == 2
\* AsyncExitStack objects constructed in one run (one per connect attempt).
MaxConnects == 2
\* Messages the agent appends after the user's question in one turn.
MaxMsgs == 2
\* Content parts of one tool result.
MaxParts == 2
\* Lines the user enters at the CLI's prompt in one run.
MaxInputs == 4
\* Coroutines that call get_mcp_client() concurrently on one event loop.
MaxTasks == 2

\* ------------------------------------------------------------- values
NoneVal == <<"<None>">>

NoExc == [kind |-> "", msg |-> <<>>]

Exc(kind, msg) == [kind |-> kind, msg |-> msg]

\* mcp_client.py:121 and :145
NotConnected ==
    Exc("RuntimeError", <<"Not connected to MCP Server. Call connect() first.">>)

\* Failures the environment can produce at the three awaits of connect().
SpawnError == Exc("FileNotFoundError", <<"uvx: command not found">>)

SessionError == Exc("OSError", <<"cannot open session streams">>)

HandshakeError == Exc("McpError", <<"Connection closed">>)

\* A failure of AsyncExitStack.aclose(): one of the exit callbacks raised.
CloseError == Exc("RuntimeError", <<"exit callback failed">>)

\* A failure of the remote tool call or of the remote tool listing.
ToolError == Exc("McpError", <<"tool execution failed">>)

ListError == Exc("McpError", <<"list_tools failed">>)

\* What a coroutine sees at the await it is suspended on when its task is
\* cancelled (asyncio.run cancels the main task on Ctrl-C).
Cancelled == Exc("CancelledError", <<>>)

KeyboardInterrupt == Exc("KeyboardInterrupt", <<>>)

\* isinstance(e, Exception): CancelledError and KeyboardInterrupt derive from
\* BaseException only, and `except Exception` lets them through.
IsException(e) == e.kind \notin {"CancelledError", "KeyboardInterrupt"}

ToolNames == {"t1", "t2"}

Texts == {<<>>, <<"d">>}

\* str(e) of agent.py:88 and :222.
StrExc(e) == e.msg

\* bool(x) for a str-or-None value.
Truthy(v) == v # NoneVal /\ v # <<>>

\* ------------------------------------------------------------- state
VARIABLES
    clients,            \* object id -> the fields of that DBTMCPClient
    nclients,           \* DBTMCPClient objects constructed so far
    _client_instance,   \* the module's singleton reference, 0 = None
    stacks,             \* exit stack id -> the contexts it holds, innermost last
    nstacks,            \* AsyncExitStack objects constructed so far
    stackLoop,          \* exit stack id -> the event loop its contexts were
                        \* entered on: "none" (no stack yet), "open" or "closed"
    _agent,             \* agent.py's memoized agent: NoAgent or [tools |-> ...]
    turn,               \* "idle", or "invoking" while ask_agent is in agent.invoke
    cli,                \* the mcp_cli.py process: where main() is, what it printed
    tasks,              \* the coroutines sharing one event loop, each where it awaits
    last                \* the call that returned last, as its caller saw it
                        \* (the value it returned is in the field of its type)

vars ==
    <<clients, nclients, _client_instance, stacks, nstacks, stackLoop, _agent, turn,
      cli, tasks, last>>

ClientIds == 1..MaxClients

StackIds == 1..MaxConnects

\* DBTMCPClient.__init__
NewClientFields == [session |-> 0, exit_stack |-> 0, _connected |-> FALSE]

\* The part of the state the client code reads and writes, as one value, so
\* that a function calling another is the composition of two operators.
World ==
    [clients |-> clients, nclients |-> nclients,
     _client_instance |-> _client_instance,
     stacks |-> stacks, nstacks |-> nstacks, stackLoop |-> stackLoop]

\* What the subprocess answered to a list_tools or call_tool request: nothing
\* (no such request was issued), an error, a tool list or a tool result.
NoReply == [status |-> "none", tools |-> <<>>, content |-> <<>>]

ErrorReply == [status |-> "error", tools |-> <<>>, content |-> <<>>]

ToolsReply(tools) == [status |-> "tools", tools |-> tools, content |-> <<>>]

ResultReply(result) == [status |-> "result", tools |-> <<>>, content |-> result.content]

\* What a call hands back: the world it leaves, the exception it raised (or
\* NoExc), the exception it caught and turned into its return value (or
\* NoExc), the value it returned, the requests it issued to the subprocess,
\* in order, the subprocess's answer to the last of them, and the event loop
\* a synchronous caller ran the coroutine on ("none", "current" or "new").
Outcome(w, raised, ret, io) ==
    [w |-> w, raised |-> raised, caught |-> NoExc, ret |-> ret, io |-> io,
     reply |-> NoReply, ran |-> "none"]

\* The same, for a call that got `reply` from the subprocess.
Replied(w, raised, ret, io, reply) ==
    [w |-> w, raised |-> raised, caught |-> NoExc, ret |-> ret, io |-> io,
     reply |-> reply, ran |-> "none"]

\* `x = await ...; K(x)`: the value of r is computed once and handed to K.
Bind(r, K(_)) == CHOOSE y \in {K(x) : x \in {r}} : TRUE

\* The same when an exception of the awaited call leaves the caller too.
AndThen(r, K(_)) ==
    CHOOSE y \in {IF x.raised # NoExc THEN x ELSE K(x) : x \in {r}} : TRUE

\* A request to the subprocess: through which exit stack's transport, and
\* whether the event loop that transport lives on was open at the time.
Req(kind, on, name, arguments) ==
    [req |-> kind, on |-> on, name |-> name, arguments |-> arguments,
     loop |-> "open"]

\* The request r, issued in world w through a transport opened earlier.
Sent(w, r) == [r EXCEPT !.loop = w.stackLoop[r.on]]

\* ------------------------------------------------------------- AsyncExitStack
\* Whether aclose() raises. Every exit callback is popped and run whatever the
\* others do, so the stack is empty afterwards; it can raise only when it
\* held a context.
AcloseFails(w, k, env) == w.stacks[k] # <<>> /\ env.aclose = "error"

Aclosed(w, k) == [w EXCEPT !.stacks[k] = <<>>]

\* ------------------------------------------------------------- DBTMCPClient
\* The except block of connect(): release the stack, forget it, re-raise.
\* When aclose() itself raises, the two statements after it do not run and
\* the exception that leaves connect() is aclose's.
connect_failed(w, c, e, io, env) ==
    LET k == w.clients[c].exit_stack
    IN  IF k = 0
        THEN Outcome(w, e, NoneVal, io)
        ELSE IF AcloseFails(w, k, env)
             THEN Outcome(Aclosed(w, k), CloseError, NoneVal, io)
             ELSE Outcome([Aclosed(w, k) EXCEPT !.clients[c].exit_stack = 0],
                          e, NoneVal, io)

\* Lines 43-79 of connect(): the try block up to the await that fails, or to
\* its end. env.cancel names the await at which the task is cancelled, if
\* any: neither `except Exception` of connect() nor that of
\* _list_available_tools() catches the CancelledError, so connect() is left
\* as it stood at that await.
connect_noguard(w, c, env) ==
    LET k  == w.nstacks + 1
        w1 == [w EXCEPT !.nstacks = k, !.stacks[k] = <<>>,
                        !.stackLoop[k] = "open",
                        !.clients[c].exit_stack = k]
        w2 == [w1 EXCEPT !.stacks[k] = <<"stdio">>]
        w3 == [w2 EXCEPT !.stacks[k] = <<"stdio", "session">>,
                         !.clients[c].session = k]
        w4 == [w3 EXCEPT !.clients[c]._connected = TRUE]
        spawn == <<Req("spawn", k, "uvx", "")>>
        init  == spawn \o <<Req("initialize", k, "", "")>>
        list  == init \o <<Req("list_tools", k, "", "")>>
    IN  CASE env.cancel = "spawn"    -> Outcome(w1, Cancelled, NoneVal, spawn)
          [] env.fail = "spawn"      -> connect_failed(w1, c, SpawnError, spawn, env)
          [] env.cancel = "session"  -> Outcome(w2, Cancelled, NoneVal, spawn)
          [] env.fail = "session"    -> connect_failed(w2, c, SessionError, spawn, env)
          [] env.cancel = "initialize" -> Outcome(w3, Cancelled, NoneVal, init)
          [] env.fail = "initialize" -> connect_failed(w3, c, HandshakeError, init, env)
          [] env.cancel = "list"     -> Outcome(w4, Cancelled, NoneVal, list)
          [] OTHER -> Outcome(w4, NoExc, NoneVal, list)

\* connect() without its first three lines, as long as the model has an
\* exit stack left to give it.
connect_always(w, c, env) ==
    IF w.nstacks < MaxConnects
    THEN connect_noguard(w, c, env)
    ELSE Outcome(w, NoExc, NoneVal, <<>>)

\* DBTMCPClient.connect. _list_available_tools() runs after the flag is set and
\* swallows its own failure, so its request is issued and its result is only
\* printed.
connect(w, c, env) ==
    IF w.clients[c]._connected
    THEN Outcome(w, NoExc, NoneVal, <<>>)
    ELSE connect_noguard(w, c, env)

\* `arguments or {}`
ArgsSent(arguments) == IF arguments \in {"None", "{}"} THEN "{}" ELSE arguments

\* call_tool() marking the client disconnected when its request is cancelled.
call_tool_noguard_drop(w, c, tool_name, arguments, env) ==
    LET s  == w.clients[c].session
        io == <<Sent(w, Req("call_tool", s, tool_name, ArgsSent(arguments)))>>
    IN  IF env.cancel = "request"
        THEN Outcome([w EXCEPT !.clients[c]._connected = FALSE], Cancelled, NoneVal, io)
        ELSE IF env.tool = "error"
        THEN Replied(w, ToolError, NoneVal, io, ErrorReply)
        ELSE Replied(w, NoExc, env.result, io, ResultReply(env.result))

\* Lines 123-132 of call_tool(): the request, and its failure re-raised.
call_tool_noguard(w, c, tool_name, arguments, env) ==
    LET s  == w.clients[c].session
        io == <<Sent(w, Req("call_tool", s, tool_name, ArgsSent(arguments)))>>
    IN  IF env.cancel = "request"
        THEN Outcome(w, Cancelled, NoneVal, io)
        ELSE IF env.tool = "error"
        THEN Replied(w, ToolError, NoneVal, io, ErrorReply)
        ELSE Replied(w, NoExc, env.result, io, ResultReply(env.result))

\* call_tool() with a guard that looks at the session reference alone.
call_tool_session_only(w, c, tool_name, arguments, env) ==
    IF w.clients[c].session = 0
    THEN Outcome(w, NotConnected, NoneVal, <<>>)
    ELSE call_tool_noguard(w, c, tool_name, arguments, env)

\* DBTMCPClient.call_tool
call_tool(w, c, tool_name, arguments, env) ==
    IF ~w.clients[c]._connected \/ w.clients[c].session = 0
    THEN Outcome(w, NotConnected, NoneVal, <<>>)
    ELSE call_tool_noguard(w, c, tool_name, arguments, env)

\* Lines 147-148 of list_tools().
list_tools_noguard(w, c, env) ==
    LET io == <<Sent(w, Req("list_tools", w.clients[c].session, "", ""))>>
    IN  IF env.cancel = "request"
        THEN Outcome(w, Cancelled, NoneVal, io)
        ELSE IF env.tool = "error"
        THEN Replied(w, ListError, NoneVal, io, ErrorReply)
        ELSE Replied(w, NoExc, env.tools, io, ToolsReply(env.tools))

\* DBTMCPClient.list_tools
list_tools(w, c, env) ==
    IF ~w.clients[c]._connected \/ w.clients[c].session = 0
    THEN Outcome(w, NotConnected, NoneVal, <<>>)
    ELSE list_tools_noguard(w, c, env)

\* close() resetting the session and the exit stack but not the flag.
close_keep_flag(w, c, env) ==
    LET k == w.clients[c].exit_stack
    IN  IF k # 0
        THEN Outcome([Aclosed(w, k) EXCEPT !.clients[c].session = 0,
                                           !.clients[c].exit_stack = 0],
                     NoExc, NoneVal, <<>>)
        ELSE Outcome(w, NoExc, NoneVal, <<>>)

\* DBTMCPClient.close: the except clause swallows aclose's failure and the
\* finally clause resets the three fields either way.
close(w, c, env) ==
    LET k == w.clients[c].exit_stack
    IN  IF k # 0
        THEN Outcome([Aclosed(w, k) EXCEPT !.clients[c] = NewClientFields],
                     NoExc, NoneVal, <<>>)
        ELSE Outcome(w, NoExc, NoneVal, <<>>)

\* ------------------------------------------------------------- the singleton
\* get_mcp_client() constructing a client on every call, as long as the
\* model has a client and an exit stack left to give it.
get_mcp_client_fresh(w, env) ==
    LET c  == w.nclients + 1
        w1 == [w EXCEPT !.nclients = c, !.clients[c] = NewClientFields,
                        !._client_instance = c]
    IN  IF w.nclients < MaxClients /\ w.nstacks < MaxConnects
        THEN AndThen(connect(w1, c, env), LAMBDA r : Outcome(r.w, NoExc, c, r.io))
        ELSE Outcome(w, NoExc, w._client_instance, <<>>)

\* get_mcp_client
get_mcp_client(w, env) ==
    LET w1 == IF w._client_instance = 0
              THEN [w EXCEPT !.nclients = @ + 1,
                             !.clients[w.nclients + 1] = NewClientFields,
                             !._client_instance = w.nclients + 1]
              ELSE w
        c  == w1._client_instance
    IN  IF ~w1.clients[c]._connected
        THEN AndThen(connect(w1, c, env), LAMBDA r : Outcome(r.w, NoExc, c, r.io))
        ELSE Outcome(w1, NoExc, c, <<>>)

\* close_global_client() without its last line.
close_global_client_keep(w, env) ==
    IF w._client_instance # 0
    THEN close(w, w._client_instance, env)
    ELSE Outcome(w, NoExc, NoneVal, <<>>)

\* close_global_client
close_global_client(w, env) ==
    IF w._client_instance # 0
    THEN Bind(close(w, w._client_instance, env),
              LAMBDA r : Outcome([r.w EXCEPT !._client_instance = 0], NoExc, NoneVal, r.io))
    ELSE Outcome(w, NoExc, NoneVal, <<>>)

\* What a call needs of the model's bounds: an object id for the client it
\* constructs and one for the exit stack it constructs.
CanConnect(w, c) == w.clients[c]._connected \/ w.nstacks < MaxConnects

CanGet(w) ==
    IF w._client_instance = 0
    THEN w.nclients < MaxClients /\ w.nstacks < MaxConnects
    ELSE CanConnect(w, w._client_instance)

\* ------------------------------------------------------------- tool adapters
\* `None[:60]` in the progress line of discover_mcp_tools.
NotSubscriptable == Exc("TypeError", <<"'NoneType' object is not subscriptable">>)

\* `.text` of a content part that has none (an image, an embedded resource).
NoTextAttribute ==
    Exc("AttributeError", <<"'ImageContent' object has no attribute 'text'">>)

\* asyncio.get_event_loop() in a thread that has no current loop.
NoCurrentLoop == Exc("RuntimeError", <<"There is no current event loop">>)

\* run_until_complete() of a new loop while the thread's loop is running.
LoopAlreadyRunning ==
    Exc("RuntimeError", <<"Cannot run the event loop while another loop is running">>)

\* asyncio.run() called while the thread's loop is running.
RunFromRunningLoop ==
    Exc("RuntimeError", <<"asyncio.run() cannot be called from a running event loop">>)

\* str(result) of a CallToolResult: its parts, spelled out.
RECURSIVE StrContent(_)
StrContent(content) ==
    IF content = <<>> THEN <<>>
    ELSE (IF Head(content).type = "text"
          THEN <<"TextContent(text=">> \o Head(content).text \o <<")">>
          ELSE <<"ImageContent()">>) \o StrContent(Tail(content))

StrResult(result) == <<"CallToolResult(content=[">> \o StrContent(result.content) \o <<"])">>

\* The f-string of agent.py:88.
ToolErrorString(tool_name, e) ==
    <<"Error calling MCP tool '", tool_name, "': ">> \o StrExc(e)

\* The coroutine _call() of sync_call_mcp_tool, run to completion.
\* Lines 71-73: the text of the first content part, or str(result) when
\* there is no part.
ExtractText(r) ==
    IF r.ret.content # <<>>
    THEN IF r.ret.content[1].type = "text"
         THEN [r EXCEPT !.ret = r.ret.content[1].text]
         ELSE [r EXCEPT !.raised = NoTextAttribute, !.ret = NoneVal]
    ELSE [r EXCEPT !.ret = StrResult(r.ret)]

\* The requests of an earlier call, put before those of r.
After(io, r) == [r EXCEPT !.io = io \o r.io]

_call(w, tool_name, kwargs, env) ==
    AndThen(get_mcp_client(w, env), LAMBDA g :
        AndThen(After(g.io, call_tool(g.w, g.ret, tool_name, kwargs, env)), ExtractText))

\* sync_call_mcp_tool() without its try statement.
Degraded_reraise(tool_name, r) == r

\* What `except Exception` of sync_call_mcp_tool makes of a round trip.
Degraded(tool_name, r) ==
    IF r.raised # NoExc /\ IsException(r.raised)
    THEN [r EXCEPT !.raised = NoExc, !.caught = r.raised,
                   !.ret = ToolErrorString(tool_name, r.raised)]
    ELSE r

\* Ctrl-C while a synchronous caller runs a coroutine on an event loop
\* (run_until_complete, asyncio.run): the coroutine stays where it was
\* suspended and the caller gets KeyboardInterrupt.
Interrupted(r) ==
    IF r.raised = Cancelled THEN [r EXCEPT !.raised = KeyboardInterrupt] ELSE r

\* Lines 76-86 of sync_call_mcp_tool: the loop _call() is run on.
RanOn(env, r) == [r EXCEPT !.ran = IF env.loop = "idle" THEN "current" ELSE "new"]

\* create_mcp_tool_wrapper.sync_call_mcp_tool. env.loop is the state of the
\* calling thread's current event loop: "none" (get_event_loop() raises),
\* "idle" (reused), "closed" or "running" (a new loop is made current).
sync_call_mcp_tool(w, tool_name, kwargs, env) ==
    CASE env.loop = "none" ->
           Degraded(tool_name, Outcome(w, NoCurrentLoop, NoneVal, <<>>))
      [] env.loop = "running" ->
           Degraded(tool_name, Outcome(w, LoopAlreadyRunning, NoneVal, <<>>))
      [] OTHER -> Bind(_call(w, tool_name, kwargs, env),
                       LAMBDA r : Degraded(tool_name, Interrupted(RanOn(env, r))))

\* create_mcp_tool_wrapper: the StructuredTool, as its name, its description
\* and the tool name its function is bound to.
create_mcp_tool_wrapper(tool_name, tool_description) ==
    [name |-> tool_name,
     description |-> IF Truthy(tool_description) THEN tool_description
                     ELSE <<"MCP tool: ", tool_name>>,
     func |-> tool_name]

\* discover_mcp_tools. The loop's progress line slices the description before
\* the wrapper is made, so the first descriptor without one ends the call.
\* The loop of discover_mcp_tools over the tools it was given.
RECURSIVE WrapEach(_)
WrapEach(tools) ==
    IF tools = <<>> THEN <<>>
    ELSE <<create_mcp_tool_wrapper(Head(tools).name, Head(tools).description)>>
         \o WrapEach(Tail(tools))

WrapAll(l) ==
    IF \E i \in 1..Len(l.ret) : l.ret[i].description = NoneVal
    THEN [l EXCEPT !.raised = NotSubscriptable, !.ret = NoneVal]
    ELSE [l EXCEPT !.ret = WrapEach(l.ret)]

discover_mcp_tools(w, env) ==
    AndThen(get_mcp_client(w, env), LAMBDA g :
        AndThen(After(g.io, list_tools(g.w, g.ret, env)), WrapAll))

\* ------------------------------------------------------------- the agent
NoAgent == [made |-> FALSE, tools |-> <<>>]

MissingApiKey ==
    Exc("ValueError", <<"OPENAI_API_KEY environment variable is not set.">>)

\* A failure of agent.invoke that is neither an interrupt nor a timeout.
InvokeError == Exc("APIConnectionError", <<"Connection error.">>)

TimeoutError == Exc("TimeoutError", <<>>)

\* asyncio.run(coro), where the coroutine took world w to the outcome d: it
\* ran on a loop of its own, which is closed when asyncio.run returns or
\* raises, and with it the loop of every transport opened meanwhile.
asyncio_run(w, d) ==
    Interrupted([d EXCEPT !.ran = "new",
                          !.w.stackLoop = [k \in DOMAIN d.w.stackLoop |->
                              IF k > w.nstacks /\ k <= d.w.nstacks THEN "closed"
                              ELSE d.w.stackLoop[k]]])

\* create_dbt_agent: the key check, then asyncio.run(discover_mcp_tools()),
\* then the agent over the discovered tools.
create_dbt_agent(w, env) ==
    IF ~env.apiKey THEN Outcome(w, MissingApiKey, NoAgent, <<>>)
    ELSE IF env.loop = "running" THEN Outcome(w, RunFromRunningLoop, NoAgent, <<>>)
    ELSE Bind(Bind(discover_mcp_tools(w, env), LAMBDA d : asyncio_run(w, d)), LAMBDA d :
             IF d.raised # NoExc THEN [d EXCEPT !.ret = NoAgent]
             ELSE [d EXCEPT !.ret = [made |-> TRUE, tools |-> d.ret]])

\* get_agent
get_agent(w, agent, env) ==
    IF ~agent.made THEN create_dbt_agent(w, env) ELSE Outcome(w, NoExc, agent, <<>>)

\* The reversed loop of ask_agent: the index of the message whose content is
\* returned, scanning down from i, or 0 when the loop runs out. Every message
\* of the agent's state has a type and a content; isStr is
\* isinstance(msg.content, str).
RECURSIVE ScanFrom(_, _)
ScanFrom(messages, i) ==
    IF i = 0 THEN 0
    ELSE IF messages[i].type = "ai" THEN i
    ELSE IF messages[i].isStr THEN i
    ELSE ScanFrom(messages, i - 1)

\* str(result) of the agent's result: its messages, spelled out.
RECURSIVE StrMessages(_)
StrMessages(messages) ==
    IF messages = <<>> THEN <<>>
    ELSE <<Head(messages).type, "(content=">> \o Head(messages).content \o <<")">>
         \o StrMessages(Tail(messages))

StrAgentResult(messages) == <<"{'messages': [">> \o StrMessages(messages) \o <<"]}">>

\* Lines 208-215 of ask_agent.
ExtractResponse(messages) ==
    IF ScanFrom(messages, Len(messages)) # 0
    THEN messages[ScanFrom(messages, Len(messages))].content
    ELSE StrAgentResult(messages)

\* The three except clauses of ask_agent.
AskErrorString(e) ==
    CASE e.kind = "KeyboardInterrupt" -> <<"Query interrupted by user.">>
      [] e.kind = "TimeoutError" -> <<"Query timed out.">>
      [] OTHER -> <<"Sorry, an error occurred: ", e.kind, " - ">> \o StrExc(e)

\* ask_agent with `except Exception` as its only clause.
Answered_exception_only(r) ==
    IF r.raised # NoExc /\ IsException(r.raised)
    THEN [r EXCEPT !.raised = NoExc, !.caught = r.raised,
                   !.ret = <<"Sorry, an error occurred: ", r.raised.kind, " - ">>
                           \o StrExc(r.raised)]
    ELSE r

\* The try statement of ask_agent around a failure of get_agent() or of
\* agent.invoke: an exception one of the three clauses catches becomes the
\* return value, any other leaves ask_agent.
Answered(r) ==
    IF r.raised # NoExc /\ (IsException(r.raised) \/ r.raised = KeyboardInterrupt)
    THEN [r EXCEPT !.raised = NoExc, !.caught = r.raised,
                   !.ret = AskErrorString(r.raised)]
    ELSE r

\* ------------------------------------------------------------- inputs
\* The sequences of exactly n elements whose i-th element is drawn from At(i).
RECURSIVE PositionalSeqsOf(_, _)
PositionalSeqsOf(At(_), n) ==
    IF n = 0 THEN {<<>>}
    ELSE {Append(c, x) : c \in PositionalSeqsOf(At, n - 1), x \in At(n)}

\* The sequences of at most n such elements.
PositionalSeqs(At(_), n) == UNION {PositionalSeqsOf(At, m) : m \in 0..n}

\* Tool descriptors as the subprocess reports them: a name, and a description
\* that is absent, empty or a text.
Descriptors == [name : ToolNames, description : {NoneVal} \cup Texts]

\* Tool lists: the names of one list are distinct.
AnyDescriptor(i) == Descriptors

ToolLists ==
    {l \in PositionalSeqs(AnyDescriptor, Cardinality(ToolNames)) :
        \A i, j \in 1..Len(l) : l[i].name = l[j].name => i = j}

\* Content parts: a text part carries text, an image part has no such field.
\* The text of a part names its position, so that no two parts of a result
\* carry the same text.
PartsAt(i) ==
    {[type |-> "text", text |-> <<"text", ToString(i)>>],
     [type |-> "image", text |-> NoneVal]}

Results == {[content |-> c] : c \in PositionalSeqs(PartsAt, MaxParts)}

\* Messages of the agent's state: who wrote it, its content, and whether the
\* content is a str or a list of content blocks. The content names the
\* message's position after the question.
MessagesAt(i) ==
    [type : {"ai", "tool"}, content : {<<"content", ToString(i)>>}, isStr : BOOLEAN]

Questions == {<<"What tables do we have?">>}

Kwargs == {"{'k': 'v'}"}

DefaultEnv ==
    [fail |-> "none", aclose |-> "ok", tool |-> "ok", result |-> [content |-> <<>>],
     tools |-> <<>>, loop |-> "idle", apiKey |-> TRUE, cancel |-> "none"]

\* How a connect() attempt can go: which await fails, and whether releasing
\* the exit stack then fails too (it cannot while the stack is empty).
ConnEnvs ==
    {[DefaultEnv EXCEPT !.fail = f] : f \in {"none", "spawn", "session", "initialize"}}
    \cup {[DefaultEnv EXCEPT !.fail = f, !.aclose = "error"] : f \in {"session", "initialize"}}

CloseEnvs == {[DefaultEnv EXCEPT !.aclose = a] : a \in {"ok", "error"}}

CallEnvs ==
    {[DefaultEnv EXCEPT !.tool = "error"]}
    \cup {[DefaultEnv EXCEPT !.result = r] : r \in Results}

ListEnvs ==
    {[DefaultEnv EXCEPT !.tool = "error"]}
    \cup {[DefaultEnv EXCEPT !.tools = l] : l \in ToolLists}

\* A get_mcp_client() followed by one request: the connect attempt matters
\* only when there is one, and the request's answer only when it is issued.
RoundTripEnvs(w, after) ==
    IF w._client_instance # 0 /\ w.clients[w._client_instance]._connected
    THEN after
    ELSE (ConnEnvs \ {DefaultEnv}) \cup after

WrapperEnvs(w) ==
    {[DefaultEnv EXCEPT !.loop = l] : l \in {"none", "running"}}
    \cup {[e EXCEPT !.loop = l] : e \in RoundTripEnvs(w, CallEnvs), l \in {"idle", "closed"}}

\* The tool lists the agent is built from: every description a text, or the
\* first one absent.
AgentListEnvs ==
    {e \in ListEnvs :
        \A i \in 1..Len(e.tools) :
            e.tools[i].description = (IF i = 1 /\ Len(e.tools) = 1 THEN NoneVal ELSE <<"d">>)
            \/ e.tools[i].description = <<"d">>}

\* Ctrl-C during a get_mcp_client() followed by one request: at one of the
\* awaits of connect(), when there is a connect, or at the request's.
CancelEnvs(w) ==
    {[DefaultEnv EXCEPT !.cancel = p] :
        p \in (IF w._client_instance # 0 /\ w.clients[w._client_instance]._connected
               THEN {} ELSE {"spawn", "session", "initialize", "list"})
              \cup {"request"}}

AgentEnvs(w) ==
    {[DefaultEnv EXCEPT !.apiKey = FALSE], [DefaultEnv EXCEPT !.loop = "running"]}
    \cup RoundTripEnvs(w, AgentListEnvs)
    \cup CancelEnvs(w)

\* ------------------------------------------------------------- the CLI
\* The mcp_cli.py process before main() runs: no exit status yet (-1), no
\* dbt-mcp subprocess launched, nothing printed, no line read from the user.
CliStart ==
    [pc |-> "start", apiKey |-> FALSE, isfile |-> FALSE, status |-> -1,
     launches |-> 0, stderr |-> <<>>, stdout |-> <<>>, inputs |-> <<>>]

\* main() with the API key check only.
cli_checks_key_only(apiKey, isfile) ==
    IF ~apiKey
    THEN [msg |-> <<"Please set the OPENAI_API_KEY environment variable first">>,
          status |-> 1]
    ELSE [msg |-> <<>>, status |-> -1]

\* The basic checks of main(): the message printed to stderr and the status
\* of sys.exit, or no message and -1 when main() goes on.
cli_checks(apiKey, isfile) ==
    IF ~apiKey
    THEN [msg |-> <<"Please set the OPENAI_API_KEY environment variable first">>,
          status |-> 1]
    ELSE IF ~isfile
    THEN [msg |-> <<"Cannot find .env file">>, status |-> 1]
    ELSE [msg |-> <<>>, status |-> -1]

\* What the user enters at the prompt, stripped: end of input or Ctrl-C, an
\* empty line, an exit command, a question.
CliInputs == {"<EOF>", "", "/exit", "/quit", "question"}

\* A coroutine running get_mcp_client(): the await of connect() it is
\* suspended on ("idle" when it is not in a call), the client it connects,
\* the exit stack it created (its subprocess is entered on that object) and
\* the exit stack object its pending enter_async_context() call pushes on.
NoTask == [pc |-> "idle", client |-> 0, spawned |-> 0, stack |-> 0]

TaskIds == 1..MaxTasks

\* ------------------------------------------------------------- operations
Idle == [state |-> "idle", question |-> <<>>]

Install(w) ==
    /\ clients' = w.clients
    /\ nclients' = w.nclients
    /\ _client_instance' = w._client_instance
    /\ stacks' = w.stacks
    /\ nstacks' = w.nstacks
    /\ stackLoop' = w.stackLoop

\* The type of the value a call returned: nothing (None, or it raised), a
\* str, a DBTMCPClient, a list of StructuredTools, or the CallToolResult or
\* tool list that the subprocess replied.
RetKind(op, r) ==
    CASE r.raised # NoExc -> "none"
      [] op \in {"sync_call_mcp_tool", "ask_agent"} -> "str"
      [] op = "get_mcp_client" -> "ref"
      [] op = "discover_mcp_tools" -> "adapters"
      [] op = "call_tool" -> "result"
      [] op = "list_tools" -> "tools"
      [] OTHER -> "none"

\* The record of a call that returned r: on which client, for which tool.
\* ret is the str returned, ref the object returned, adapters the tools
\* returned; a result or a tool list returned is the one in reply.
Returned(op, c, name, r) ==
    [op |-> op, client |-> c, name |-> name, raised |-> r.raised,
     caught |-> r.caught, value |-> RetKind(op, r),
     ret |-> IF RetKind(op, r) = "str" THEN r.ret ELSE NoneVal,
     ref |-> IF RetKind(op, r) = "ref" THEN r.ret ELSE 0,
     adapters |-> IF RetKind(op, r) = "adapters" THEN r.ret ELSE <<>>,
     io |-> r.io, reply |-> r.reply, messages |-> <<>>,
     loop |-> "", ran |-> r.ran]

Init ==
    /\ clients = [c \in ClientIds |-> NewClientFields]
    /\ nclients = 0
    /\ _client_instance = 0
    /\ stacks = [k \in StackIds |-> <<>>]
    /\ nstacks = 0
    /\ stackLoop = [k \in StackIds |-> "none"]
    /\ _agent = NoAgent
    /\ turn = Idle
    /\ cli = CliStart
    /\ tasks = [t \in TaskIds |-> NoTask]
    /\ last = Returned("import", 0, "", Outcome(World, NoExc, NoneVal, <<>>))

\* await client.connect()
Connect ==
    /\ turn = Idle
    /\ \E c \in 1..nclients, env \in ConnEnvs :
          /\ CanConnect(World, c)
          /\ \E r \in {connect(World, c, env)} :
                 Install(r.w) /\ last' = Returned("connect", c, "", r)
    /\ UNCHANGED <<_agent, turn, cli, tasks>>

\* await client.connect() in a task that is cancelled at one of connect()'s
\* awaits.
ConnectCancelled ==
    /\ turn = Idle
    /\ \E c \in 1..nclients, p \in {"spawn", "session", "initialize", "list"} :
          /\ ~clients[c]._connected
          /\ nstacks < MaxConnects
          /\ \E r \in {connect(World, c, [DefaultEnv EXCEPT !.cancel = p])} :
                 Install(r.w) /\ last' = Returned("connect", c, "", r)
    /\ UNCHANGED <<_agent, turn, cli, tasks>>

\* await client.call_tool(tool_name, arguments)
CallTool ==
    /\ turn = Idle
    /\ \E c \in 1..nclients, n \in ToolNames, a \in Kwargs \cup {"None"},
          env \in CallEnvs :
          \E r \in {call_tool(World, c, n, a, env)} :
              Install(r.w) /\ last' = Returned("call_tool", c, n, r)
    /\ UNCHANGED <<_agent, turn, cli, tasks>>

\* await client.list_tools()
ListTools ==
    /\ turn = Idle
    /\ \E c \in 1..nclients, env \in ListEnvs :
          \E r \in {list_tools(World, c, env)} :
              Install(r.w) /\ last' = Returned("list_tools", c, "", r)
    /\ UNCHANGED <<_agent, turn, cli, tasks>>

\* await client.close()
Close ==
    /\ turn = Idle
    /\ \E c \in 1..nclients, env \in CloseEnvs :
          \E r \in {close(World, c, env)} :
              Install(r.w) /\ last' = Returned("close", c, "", r)
    /\ UNCHANGED <<_agent, turn, cli, tasks>>

\* await get_mcp_client()
GetMcpClient ==
    /\ turn = Idle
    /\ CanGet(World)
    /\ \E env \in RoundTripEnvs(World, {DefaultEnv}) :
          \E r \in {get_mcp_client(World, env)} :
              Install(r.w) /\ last' = Returned("get_mcp_client", r.w._client_instance, "", r)
    /\ UNCHANGED <<_agent, turn, cli, tasks>>

\* await close_global_client()
CloseGlobalClient ==
    /\ turn = Idle
    /\ \E env \in CloseEnvs :
          \E r \in {close_global_client(World, env)} :
              Install(r.w) /\ last' = Returned("close_global_client", _client_instance, "", r)
    /\ UNCHANGED <<_agent, turn, cli, tasks>>

\* await discover_mcp_tools()
DiscoverMcpTools ==
    /\ turn = Idle
    /\ CanGet(World)
    /\ \E env \in RoundTripEnvs(World, ListEnvs) :
          \E r \in {discover_mcp_tools(World, env)} :
              Install(r.w)
              /\ last' = Returned("discover_mcp_tools", r.w._client_instance, "", r)
    /\ UNCHANGED <<_agent, turn, cli, tasks>>

\* create_mcp_tool_wrapper(tool_name, ...).func(**kwargs), called directly.
SyncCallMcpTool ==
    /\ turn = Idle
    /\ CanGet(World)
    /\ \E n \in ToolNames, k \in Kwargs, env \in WrapperEnvs(World) :
          \E r \in {sync_call_mcp_tool(World, n, k, env)} :
              Install(r.w)
              /\ last' = [Returned("sync_call_mcp_tool", r.w._client_instance, n, r)
                           EXCEPT !.loop = env.loop]
    /\ UNCHANGED <<_agent, turn, cli, tasks>>

\* ask_agent(question) up to agent.invoke: get_agent() either fails, and
\* ask_agent returns the error string, or hands the agent to invoke.
AskAgentBegin ==
    /\ turn = Idle
    /\ UNCHANGED <<cli, tasks>>
    /\ _agent.made \/ CanGet(World)
    /\ \E q \in Questions, env \in AgentEnvs(World) :
          \E r \in {get_agent(World, _agent, env)} :
              /\ Install(r.w)
              /\ _agent' = r.ret
              /\ IF r.raised # NoExc
                 THEN /\ turn' = Idle
                      /\ last' = Returned("ask_agent", r.w._client_instance, "",
                                           Answered(r))
                 ELSE /\ turn' = [state |-> "invoking", question |-> q]
                      /\ last' = Returned("get_agent", 0, "", [r EXCEPT !.ret = NoneVal])

\* One tool call the agent makes during agent.invoke.
AgentToolCall ==
    /\ turn.state = "invoking"
    /\ CanGet(World)
    /\ \E i \in 1..Len(_agent.tools), k \in Kwargs, env \in WrapperEnvs(World) :
          \E r \in {sync_call_mcp_tool(World, _agent.tools[i].func, k, env)} :
              /\ Install(r.w)
              /\ last' = [Returned("sync_call_mcp_tool", r.w._client_instance,
                                   _agent.tools[i].func, r)
                           EXCEPT !.loop = env.loop]
    /\ UNCHANGED <<_agent, turn, cli, tasks>>

\* Ctrl-C while a tool call of agent.invoke is in its round trip: the adapter
\* lets the KeyboardInterrupt through, agent.invoke is left and ask_agent
\* answers.
AgentToolCallInterrupted ==
    /\ turn.state = "invoking"
    /\ CanGet(World)
    /\ \E i \in 1..Len(_agent.tools), k \in Kwargs, env \in CancelEnvs(World),
          l \in {"idle", "closed"} :
          \E r \in {sync_call_mcp_tool(World, _agent.tools[i].func, k,
                                       [env EXCEPT !.loop = l])} :
              /\ Install(r.w)
              /\ last' = [Returned("ask_agent", r.w._client_instance, "", Answered(r))
                           EXCEPT !.loop = l]
    /\ turn' = Idle
    /\ UNCHANGED <<_agent, cli, tasks>>

\* agent.invoke returns its messages (the question first) and ask_agent
\* extracts the response.
AskAgentReturn ==
    /\ turn.state = "invoking"
    /\ \E tail \in PositionalSeqs(MessagesAt, MaxMsgs) :
          \E messages \in {<<[type |-> "human", content |-> turn.question,
                              isStr |-> TRUE]>> \o tail} :
              last' = [Returned("ask_agent", _client_instance, "",
                                Outcome(World, NoExc, ExtractResponse(messages), <<>>))
                       EXCEPT !.messages = messages]
    /\ turn' = Idle
    /\ UNCHANGED <<clients, nclients, _client_instance, stacks, nstacks, stackLoop, _agent,
                   cli, tasks>>

\* agent.invoke raises and one of ask_agent's except clauses answers.
AskAgentRaise ==
    /\ turn.state = "invoking"
    /\ \E e \in {KeyboardInterrupt, TimeoutError, InvokeError} :
          last' = Returned("ask_agent", _client_instance, "",
                           Answered(Outcome(World, e, NoneVal, <<>>)))
    /\ turn' = Idle
    /\ UNCHANGED <<clients, nclients, _client_instance, stacks, nstacks, stackLoop, _agent,
                   cli, tasks>>

\* A coroutine calls get_mcp_client() and runs to its first await: lines
\* 204-208, then lines 39-57 of connect(), or to its return when the client
\* is flagged connected.
TaskStart(t) ==
    /\ turn = Idle
    /\ tasks[t].pc = "idle"
    /\ LET c == IF _client_instance = 0 THEN nclients + 1 ELSE _client_instance
           k == nstacks + 1
       IN  /\ _client_instance = 0 => nclients < MaxClients
           /\ _client_instance' = c
           /\ nclients' = IF _client_instance = 0 THEN c ELSE nclients
           /\ IF _client_instance # 0 /\ clients[c]._connected
              THEN /\ last' = Returned("get_mcp_client", c, "",
                                       Outcome(World, NoExc, c, <<>>))
                   /\ UNCHANGED <<clients, stacks, nstacks, stackLoop, tasks>>
              ELSE /\ nstacks < MaxConnects
                   /\ nstacks' = k
                   /\ stackLoop' = [stackLoop EXCEPT ![k] = "open"]
                   /\ clients' = [clients EXCEPT ![c].exit_stack = k]
                   /\ tasks' = [tasks EXCEPT ![t] =
                          [pc |-> "spawn", client |-> c, spawned |-> k, stack |-> k]]
                   /\ UNCHANGED <<stacks, last>>
    /\ UNCHANGED <<_agent, turn, cli>>

\* The subprocess is up: the stdio context is pushed on the stack object the
\* call was made on, and line 61 calls enter_async_context() on whatever
\* self.exit_stack is now.
TaskSpawned(t) ==
    /\ tasks[t].pc = "spawn"
    /\ stacks' = [stacks EXCEPT ![tasks[t].stack] = Append(@, "stdio")]
    /\ tasks' = [tasks EXCEPT ![t].pc = "session",
                              ![t].stack = clients[tasks[t].client].exit_stack]
    /\ UNCHANGED <<clients, nclients, _client_instance, nstacks, stackLoop, _agent, turn,
                   cli, last>>

\* The session is entered: it is pushed, assigned to self.session, and line
\* 66 awaits its handshake.
TaskSessionEntered(t) ==
    /\ tasks[t].pc = "session"
    /\ stacks' = [stacks EXCEPT ![tasks[t].stack] = Append(@, "session")]
    /\ clients' = [clients EXCEPT ![tasks[t].client].session = tasks[t].spawned]
    /\ tasks' = [tasks EXCEPT ![t].pc = "initialize"]
    /\ UNCHANGED <<nclients, _client_instance, nstacks, stackLoop, _agent, turn, cli, last>>

\* The handshake is done: line 68 sets the flag and line 72 awaits the tool
\* listing.
TaskInitialized(t) ==
    /\ tasks[t].pc = "initialize"
    /\ clients' = [clients EXCEPT ![tasks[t].client]._connected = TRUE]
    /\ tasks' = [tasks EXCEPT ![t].pc = "list"]
    /\ UNCHANGED <<nclients, _client_instance, stacks, nstacks, stackLoop, _agent, turn,
                   cli, last>>

\* The listing is printed, connect() returns and get_mcp_client() returns the
\* singleton.
TaskListed(t) ==
    /\ tasks[t].pc = "list"
    /\ tasks' = [tasks EXCEPT ![t] = NoTask]
    /\ last' = Returned("get_mcp_client", _client_instance, "",
                        Outcome(World, NoExc, _client_instance,
                                <<Req("spawn", tasks[t].spawned, "uvx", ""),
                                  Req("initialize", tasks[t].spawned, "", ""),
                                  Req("list_tools", clients[tasks[t].client].session, "", "")>>))
    /\ UNCHANGED <<clients, nclients, _client_instance, stacks, nstacks, stackLoop, _agent,
                   turn, cli>>

\* Coroutines of one event loop, each calling get_mcp_client(): the loop runs
\* one of them at a time, from one await to the next.
TasksNext ==
    \E t \in TaskIds :
        \/ TaskStart(t)
        \/ TaskSpawned(t)
        \/ TaskSessionEntered(t)
        \/ TaskInitialized(t)
        \/ TaskListed(t)

SpecTasks == Init /\ [][TasksNext]_vars

\* main() of mcp_cli.py up to `async with agent`: the two checks, each ending
\* the process with sys.exit(1), then the declaration of the subprocess and
\* of the agent, which launch nothing.
CliMain ==
    /\ cli.pc = "start"
    /\ \E apiKey \in BOOLEAN, isfile \in BOOLEAN :
          \E chk \in {cli_checks(apiKey, isfile)} :
              cli' = [cli EXCEPT !.apiKey = apiKey, !.isfile = isfile,
                                 !.stderr = IF chk.msg = <<>> THEN @ ELSE Append(@, chk.msg),
                                 !.status = chk.status,
                                 !.stdout = IF chk.status = -1 THEN Append(@, "Ready") ELSE @,
                                 !.pc = IF chk.status = -1 THEN "ready" ELSE "exited"]
    /\ UNCHANGED <<clients, nclients, _client_instance, stacks, nstacks, stackLoop, _agent,
                   turn, tasks, last>>

\* `async with agent`: the toolset is entered, which launches dbt-mcp; a
\* launch that fails leaves main() with the exception (status 1).
CliEnter ==
    /\ cli.pc = "ready"
    /\ \E ok \in BOOLEAN :
          cli' = [cli EXCEPT !.launches = @ + 1,
                             !.pc = IF ok THEN "prompt" ELSE "exited",
                             !.status = IF ok THEN @ ELSE 1,
                             !.stderr = IF ok THEN @ ELSE Append(@, <<"Traceback">>)]
    /\ UNCHANGED <<clients, nclients, _client_instance, stacks, nstacks, stackLoop, _agent,
                   turn, tasks, last>>

\* One pass of the prompt loop: the input read, and what it leads to.
CliPrompt ==
    /\ cli.pc = "prompt"
    /\ Len(cli.inputs) < MaxInputs
    /\ \E user \in CliInputs, ok \in BOOLEAN :
          cli' = CASE user \in {"<EOF>", "/exit", "/quit"} ->
                        [cli EXCEPT !.inputs = Append(@, user), !.stdout = Append(@, "Bye"),
                                    !.pc = "exited", !.status = 0]
                   [] user = "" -> [cli EXCEPT !.inputs = Append(@, user)]
                   [] OTHER ->
                        IF ok
                        THEN [cli EXCEPT !.inputs = Append(@, user),
                                         !.stdout = Append(@, "Assistant")]
                        ELSE [cli EXCEPT !.inputs = Append(@, user),
                                         !.stderr = Append(@, <<"Error">>)]
    /\ UNCHANGED <<clients, nclients, _client_instance, stacks, nstacks, stackLoop, _agent,
                   turn, tasks, last>>

CliNext ==
    \/ CliMain
    \/ CliEnter
    \/ CliPrompt

SpecCli == Init /\ [][CliNext]_vars

\* The calls that change the clients, the singleton or the exit stacks. The
\* tool adapters and the agent reach them only through get_mcp_client().
Lifecycle ==
    \/ Connect
    \/ Close
    \/ GetMcpClient
    \/ CloseGlobalClient

\* A program that uses the session client directly (agents/test/test_mcp.py).
ClientNext ==
    \/ Lifecycle
    \/ CallTool
    \/ ListTools

SpecClient == Init /\ [][ClientNext]_vars

\* The same program, its connecting task open to cancellation.
CancelNext ==
    \/ ClientNext
    \/ ConnectCancelled

SpecCancel == Init /\ [][CancelNext]_vars

\* A program that discovers the tools and calls their adapters.
AdapterNext ==
    \/ Lifecycle
    \/ DiscoverMcpTools
    \/ SyncCallMcpTool

SpecAdapter == Init /\ [][AdapterNext]_vars

\* A front end: it asks, and closes the client at shutdown.
AgentNext ==
    \/ Lifecycle
    \/ AskAgentBegin
    \/ AgentToolCall
    \/ AgentToolCallInterrupted
    \/ AskAgentReturn
    \/ AskAgentRaise

SpecAgent == Init /\ [][AgentNext]_vars

\* The Streamlit front end (app.py): every call it makes is ask_agent(), and
\* it never closes the client.
AppNext ==
    \/ AskAgentBegin
    \/ AgentToolCall
    \/ AgentToolCallInterrupted
    \/ AskAgentReturn
    \/ AskAgentRaise

SpecApp == Init /\ [][AppNext]_vars

Next ==
    \/ ClientNext
    \/ AdapterNext
    \/ AgentNext
    \/ AppNext
    \/ CliNext
    \/ CancelNext
    \/ TasksNext

Spec == Init /\ [][Next]_vars

\* ------------------------------------------------------------- properties
\* The variables of World, for "the call changed nothing".
world == <<clients, nclients, _client_instance, stacks, nstacks, stackLoop>>

\* The exit stack a connect() attempt created: the one its spawn request
\* went through.
StackOf(call) == call.io[1].on

\* C1: call_tool() and list_tools() on a client whose connection flag is
\* false raise the not-connected error, issue no request and change nothing.
C1_NotConnectedFailsFast ==
    [][(last'.op \in {"call_tool", "list_tools"} /\ ~clients[last'.client]._connected)
         => (last'.raised = NotConnected /\ last'.io = <<>> /\ UNCHANGED world)]_vars

\* C1's case: a request was refused on a client that still holds the session
\* reference of a handshake that failed.
C1_Witness ==
    /\ last.op \in {"call_tool", "list_tools"}
    /\ last.raised = NotConnected
    /\ clients[last.client].session # 0

\* C2: connect() on a client whose connection flag is true returns at once:
\* no request, no new exit stack, no field replaced, the flag still true.
C2_ConnectIdempotent ==
    [][(last'.op = "connect" /\ clients[last'.client]._connected)
         => (last'.raised = NoExc /\ last'.io = <<>> /\ UNCHANGED world)]_vars

\* C2's case: a connect() that issued no request returned on a connected
\* client.
C2_Witness ==
    last.op = "connect" /\ last.io = <<>> /\ clients[last.client]._connected

ConnectFailures == {SpawnError, SessionError, HandshakeError}

\* C3: a connect() that fails leaves the flag false and its exit stack
\* released, and raises the failure of the step that failed.
C3_ConnectFailureReraised ==
    (last.op = "connect" /\ last.raised # NoExc)
        => /\ ~clients[last.client]._connected
           /\ stacks[StackOf(last)] = <<>>
           /\ last.raised \in ConnectFailures

\* C4: close() raises nothing and leaves the client as __init__ made it.
C4_CloseResets ==
    last.op = "close"
        => (last.raised = NoExc /\ clients[last.client] = NewClientFields)

\* C5: a get_mcp_client() that returns normally returns the singleton,
\* connected; it constructs a client only when there was none, and otherwise
\* returns the one there was.
C5_GetReturnsConnectedSingleton ==
    [][(last'.op = "get_mcp_client" /\ last'.raised = NoExc)
         => /\ last'.ref = _client_instance'
            /\ clients'[last'.ref]._connected
            /\ IF _client_instance = 0
               THEN nclients' = nclients + 1
               ELSE _client_instance' = _client_instance /\ nclients' = nclients]_vars

\* C5's case: the one client ever constructed was returned connected on its
\* second exit stack, that is, reconnected.
C5_Witness ==
    /\ last.op = "get_mcp_client"
    /\ last.raised = NoExc
    /\ last.io # <<>>
    /\ nclients = 1
    /\ clients[1].exit_stack = 2

\* C6: close_global_client() closes the singleton, if any, and clears the
\* reference; the get_mcp_client() that follows returns a client that did not
\* exist before, connected.
C6_CloseGlobalThenFresh ==
    [][/\ last'.op = "close_global_client"
            => /\ last'.raised = NoExc
               /\ _client_instance' = 0
               /\ IF _client_instance = 0
                  THEN UNCHANGED world
                  ELSE /\ ~clients'[_client_instance]._connected
                       /\ clients[_client_instance].exit_stack # 0
                            => stacks'[clients[_client_instance].exit_stack] = <<>>
       /\ (last'.op = "get_mcp_client" /\ last'.raised = NoExc /\ _client_instance = 0)
            => /\ last'.ref \notin 1..nclients
               /\ clients'[last'.ref]._connected]_vars

\* C6's case: the first client was closed and discarded, and the second one
\* was constructed and returned connected.
C6_Witness ==
    /\ last.op = "get_mcp_client"
    /\ last.raised = NoExc
    /\ last.ref = 2
    /\ clients[2]._connected
    /\ ~clients[1]._connected
    /\ clients[1].exit_stack = 0

\* C7: discover_mcp_tools() returns one adapter per descriptor of the list
\* the subprocess returned, in order, each with the descriptor's name and its
\* description as it came, absent and empty ones included.
C7_OneAdapterPerDescriptor ==
    (last.op = "discover_mcp_tools" /\ last.reply.status = "tools")
        => /\ last.raised = NoExc
           /\ Len(last.adapters) = Len(last.reply.tools)
           /\ \A i \in 1..Len(last.reply.tools) :
                 /\ last.adapters[i].name = last.reply.tools[i].name
                 /\ last.adapters[i].description = last.reply.tools[i].description

\* Whether the str s contains the str t.
Contains(s, t) == \E i \in 1..(Len(s) - Len(t) + 1) : SubSeq(s, i, i + Len(t) - 1) = t

\* The round trip of an adapter call failed: its last request was refused, or
\* it got no further than connecting.
RoundTripFailed(call) ==
    \/ call.reply.status = "error"
    \/ call.io # <<>> /\ call.io[Len(call.io)].req \in {"spawn", "initialize"}

\* C8: an adapter call raises nothing, and when its round trip failed it
\* returns a str that contains the tool's name and the failure's message.
C8_WrapperDegradesFailure ==
    last.op = "sync_call_mcp_tool"
        => /\ last.raised = NoExc
           /\ RoundTripFailed(last)
                => /\ last.caught \in ConnectFailures \cup {CloseError, ToolError}
                   /\ last.reply.status = "error" => last.caught = ToolError
                   /\ Contains(last.ret, <<last.name>>)
                   /\ Contains(last.ret, StrExc(last.caught))

\* C8's case: the subprocess refused the tool call and the adapter returned.
C8_Witness ==
    /\ last.op = "sync_call_mcp_tool"
    /\ last.reply.status = "error"
    /\ last.caught = ToolError

\* The parts of a result that carry text.
TextParts(content) == {i \in 1..Len(content) : content[i].type = "text"}

Min(S) == CHOOSE i \in S : \A j \in S : i <= j

Max(S) == CHOOSE i \in S : \A j \in S : i >= j

\* C9: for a tool call that succeeded the adapter returns the text of the
\* first part that carries text, and str(result) when no part does.
C9_FirstTextPart ==
    (last.op = "sync_call_mcp_tool" /\ last.reply.status = "result")
        => /\ last.raised = NoExc
           /\ last.ret = IF TextParts(last.reply.content) # {}
                         THEN last.reply.content[Min(TextParts(last.reply.content))].text
                         ELSE StrResult(last.reply)

\* The assistant-authored messages with text.
AssistantTexts(messages) ==
    {i \in 1..Len(messages) : messages[i].type = "ai" /\ messages[i].isStr}

\* C10: ask_agent() returns the content of the latest assistant-authored
\* text message, and str(result) when there is none.
C10_LatestAssistantText ==
    (last.op = "ask_agent" /\ last.messages # <<>>)
        => last.ret = IF AssistantTexts(last.messages) # {}
                      THEN last.messages[Max(AssistantTexts(last.messages))].content
                      ELSE StrAgentResult(last.messages)

\* C11: ask_agent() raises nothing: an interrupt gives the fixed sentence, a
\* timeout gives the other fixed sentence, and any other failure of the
\* agent's construction or of the turn gives a str that contains the
\* exception's kind and its message.
C11_AskNeverRaises ==
    last.op = "ask_agent"
        => /\ last.raised = NoExc
           /\ last.caught = KeyboardInterrupt
                => last.ret = <<"Query interrupted by user.">>
           /\ last.caught = TimeoutError => last.ret = <<"Query timed out.">>
           /\ (last.caught # NoExc /\ last.caught \notin {KeyboardInterrupt, TimeoutError})
                => /\ Contains(last.ret, <<last.caught.kind>>)
                   /\ Contains(last.ret, StrExc(last.caught))

\* C11's case: the agent's construction was interrupted while the client was
\* connecting, and ask_agent() returned.
C11_Witness ==
    /\ last.op = "ask_agent"
    /\ last.caught = KeyboardInterrupt
    /\ last.io # <<>>
    /\ ~_agent.made

\* C12 as claimed: after an ask_agent() that was interrupted, at whatever
\* point of the turn, the global client is marked connected.
C12_InterruptLeavesConnected ==
    (last.op = "ask_agent" /\ last.caught = KeyboardInterrupt)
        => (_client_instance # 0 /\ clients[_client_instance]._connected)

\* C12 as amended: a global client that was marked connected when the
\* interrupted ask_agent() began its step is the global client, marked
\* connected, when ask_agent() has returned the fixed sentence.
C12_InterruptKeepsConnected ==
    [][(/\ last'.op = "ask_agent"
        /\ last'.caught = KeyboardInterrupt
        /\ _client_instance # 0
        /\ clients[_client_instance]._connected)
         => (/\ last'.ret = <<"Query interrupted by user.">>
             /\ _client_instance' = _client_instance
             /\ clients'[_client_instance]._connected)]_vars

\* C12's case: the interrupt arrived while a tool call of the turn was
\* waiting for the subprocess, on a connected client.
C12_Witness ==
    /\ last.op = "ask_agent"
    /\ last.caught = KeyboardInterrupt
    /\ last.io # <<>>
    /\ last.io[Len(last.io)].req = "call_tool"
    /\ _client_instance # 0
    /\ clients[_client_instance]._connected

\* C13: a CLI run in which the API key is unset or the credentials path names
\* no file has, once it has ended, reported the error, a non-zero status and
\* no launch of the metadata subprocess; no run launches it before both
\* checks have passed; and a run the user ends exits with status zero.
C13_CliChecksBeforeLaunch ==
    /\ (cli.pc = "exited" /\ (~cli.apiKey \/ ~cli.isfile))
         => (cli.status > 0 /\ cli.stderr # <<>> /\ cli.launches = 0)
    /\ cli.launches > 0 => (cli.apiKey /\ cli.isfile)
    /\ (cli.pc = "exited" /\ cli.stdout # <<>> /\ cli.stdout[Len(cli.stdout)] = "Bye")
         => cli.status = 0

\* C13's case: the key was set, the file was missing and the run has ended.
C13_Witness ==
    cli.pc = "exited" /\ cli.apiKey /\ ~cli.isfile /\ cli.status = 1

\* C14: whenever connect() ends without a live connection, by an error or by
\* the cancellation of its task at one of its awaits, the exit stack it
\* created holds nothing: the subprocess, the stream and the session it had
\* acquired have been released.
C14_NoHandleLeaked ==
    (last.op = "connect" /\ last.raised # NoExc /\ ~clients[last.client]._connected)
        => stacks[StackOf(last)] = <<>>

\* The exit stacks whose subprocess is up or is being spawned.
Subprocesses ==
    {k \in 1..nstacks :
        \/ stacks[k] # <<>>
        \/ \E t \in TaskIds : tasks[t].pc = "spawn" /\ tasks[t].spawned = k}

\* C15: however the get_mcp_client() calls of coroutines sharing one event
\* loop interleave at connect()'s awaits, one subprocess at most is spawned,
\* and an exit stack that holds resources is the one its client refers to.
C15_SingleSpawnOnOneLoop ==
    /\ Cardinality(Subprocesses) <= 1
    /\ \A k \in 1..nstacks :
          stacks[k] # <<>> => \E c \in 1..nclients : clients[c].exit_stack = k

\* C16: a wrapper call returns a value, and its round trip was run once: on
\* the current event loop when that loop was idle, on a new loop when the
\* current loop was running or closed.
C16_RoundTripRanOnce ==
    (last.op = "sync_call_mcp_tool" /\ last.loop \in {"idle", "running", "closed"})
        => /\ last.raised = NoExc
           /\ last.ran = (IF last.loop = "idle" THEN "current" ELSE "new")

\* C17: every call_tool or list_tools request that reaches a session finds
\* the event loop its transport was opened on still open.
C17_RequestsOnOpenLoop ==
    \A i \in 1..Len(last.io) :
        last.io[i].req \in {"call_tool", "list_tools"} => last.io[i].loop = "open"

\* C18: whatever connect(), close(), list_tools() and call_tool() calls a
\* client has been through, failed or not, a client flagged connected has a
\* session and an exit stack.
C18_ConnectedHasSessionAndStack ==
    \A c \in 1..nclients :
        clients[c]._connected => clients[c].session # 0 /\ clients[c].exit_stack # 0

\* A client connected at its second attempt, a later call of it having failed.
C18_Witness ==
    \E c \in 1..nclients :
        /\ clients[c]._connected
        /\ clients[c].exit_stack = 2
        /\ last.client = c
        /\ last.op = "call_tool"
        /\ last.raised # NoExc

====
